---- MODULE Spec2Model ----
(***************************************************************************)
(* Model of frontend/src/main.jsx, the entry module of the front end:      *)
(*                                                                         *)
(*   1  import React from 'react'                                          *)
(*   2  import ReactDOM from 'react-dom/client'                            *)
(*   3  import App from './App.jsx'                                        *)
(*   4  import  './assets/styles/GlobalStyle.scss'                         *)
(*   6  ReactDOM.createRoot(document.getElementById('root')).render(       *)
(*   7    <React.StrictMode>                                               *)
(*   8      <App />                                                        *)
(*   9    </React.StrictMode>,                                             *)
(*  10  )                                                                  *)
(*                                                                         *)
(* The host (browser) links the four static imports, evaluates them in     *)
(* source order, then evaluates the module body: the argument              *)
(* document.getElementById('root'), the call ReactDOM.createRoot on it,    *)
(* and the call render on the root that createRoot returned.  The module   *)
(* has no try/catch, no await and no loop.  The calls into the host and    *)
(* into react-dom are modelled by their documented contracts:              *)
(*   - getElementById returns the element with that id, or null;           *)
(*   - createRoot throws when its container is not a DOM element, and      *)
(*     otherwise returns a new root for the container without touching     *)
(*     the document;                                                       *)
(*   - root.render records the element to render and schedules the work;   *)
(*     the framework renders and commits in a later task of the host's     *)
(*     event loop, once the running script has returned.                   *)
(***************************************************************************)
EXTENDS Naturals, Sequences, FiniteSets

\* Number of distinct literal texts a node or the App component may hold.
NumTexts == 2

\* Content of a DOM node: 0 is a node with no children, t > 0 is the text t.
Texts == 1..NumTexts
Contents == {0} \cup Texts

\* The id the module looks up (line 6), and the other ids a host document
\* may carry.
MountId_other == "app"
MountId == "root"
Ids == {"root", "app"}

\* The value getElementById returns when no element has the id.
Null == "null"

\* The element handed to render (lines 7-9): App wrapped in StrictMode.
ComponentTree == [wrapper |-> "StrictMode", child |-> "App"]

\* The steps of the module in evaluation order: the four imports (lines
\* 1-4), then the body's argument, call and method call (lines 6-10).
ImportSteps == <<"import_react", "import_reactdom", "import_app", "import_style">>
BodySteps == <<"lookup", "createRoot", "render">>
Program_renderFirst == ImportSteps \o <<"lookup", "render", "createRoot">>
Program_twoRoots == ImportSteps \o <<"lookup", "createRoot", "createRoot", "render">>
Program_styleLast ==
    <<"import_react", "import_reactdom", "import_app">> \o BodySteps
        \o <<"import_style">>
Program == ImportSteps \o BodySteps

Range(s) == {s[i] : i \in 1..Len(s)}

\* Position of a step in a sequence of steps, 0 when absent.
Pos(s, x) == IF x \in Range(s) THEN CHOOSE i \in 1..Len(s) : s[i] = x ELSE 0

Succ_retry(step) ==
    LET i == Pos(Program, step)
    IN IF i < Len(Program) THEN Program[i + 1] ELSE "lookup"

\* The step that follows `step` in program order; "done" after the last.
Succ(step) ==
    LET i == Pos(Program, step)
    IN IF i < Len(Program) THEN Program[i + 1] ELSE "done"

Catch_swallow(step) == Succ(step)

\* Where control goes when `step` throws: the module catches nothing, so
\* evaluation is abandoned.
Catch(step) == "error"

\* document.getElementById(id) on document d.
getElementById(d, id) == IF id \in DOMAIN d THEN id ELSE Null

createRootThrows_never(c) == FALSE

\* createRoot's container check: it throws unless given a DOM element.
createRootThrows(c) == c = Null

\* What the framework puts under the container for an element tree: the
\* StrictMode wrapper renders its children and nothing of its own.
RenderOutput(tree, text) == IF tree.child = "App" THEN text ELSE 0

VARIABLES
    pc,             \* the step about to run, or "link", "done", "error"
    doc,            \* the host document now: present id -> content
    doc0,           \* the host document as the module found it
    appText,        \* the text App renders
    appThrows,      \* whether App throws while rendering
    failing,        \* the import that fails, or "none"
    failKind,       \* "load": it cannot be resolved; "eval": it throws
    log,            \* the steps evaluated so far, in order
    styleLoaded,    \* the stylesheet import has taken effect
    container,      \* the value of document.getElementById('root')
    roots,          \* the roots created: the container of each
    renderRequests, \* every render call made: [root, tree]
    pending,        \* render calls the framework has not yet worked off
    commits,        \* number of commits the framework has made
    uncaught        \* errors that reached the host's uncaught-error path

vars == <<pc, doc, doc0, appText, appThrows, failing, failKind, log,
          styleLoaded, container, roots, renderRequests, pending, commits,
          uncaught>>

inputs == <<doc0, appText, appThrows, failing, failKind>>

\* Host documents: any subset of the ids, each element with any content.
Documents == UNION {[S -> Contents] : S \in SUBSET Ids}

Init ==
    /\ doc0 \in Documents
    /\ doc = doc0
    /\ appText \in Texts
    /\ appThrows \in BOOLEAN
    /\ failing \in {"none"} \cup Range(ImportSteps)
    /\ failKind \in (IF failing = "none" THEN {"eval"} ELSE {"load", "eval"})
    /\ pc = "link"
    /\ log = <<>>
    /\ styleLoaded = FALSE
    /\ container = Null
    /\ roots = <<>>
    /\ renderRequests = <<>>
    /\ pending = <<>>
    /\ commits = 0
    /\ uncaught = <<>>

\* The script is running: the host runs no other task until it returns.
Terminal == {"done", "error"}
StackEmpty == pc \in Terminal

\* Linking: every static import is resolved before anything is evaluated;
\* an import that cannot be resolved fails the whole module.
Link ==
    /\ pc = "link"
    /\ IF failing # "none" /\ failKind = "load"
       THEN /\ pc' = Catch("link")
            /\ uncaught' = Append(uncaught, failing)
       ELSE /\ pc' = Program[1]
            /\ UNCHANGED uncaught
    /\ UNCHANGED <<doc, inputs, log, styleLoaded, container, roots,
                   renderRequests, pending, commits>>

\* Evaluation of one imported module.
Import(step) ==
    /\ pc = step
    /\ log' = Append(log, step)
    /\ IF failing = step
       THEN /\ pc' = Catch(step)
            /\ uncaught' = Append(uncaught, step)
            /\ UNCHANGED styleLoaded
       ELSE /\ pc' = Succ(step)
            /\ styleLoaded' = (styleLoaded \/ step = "import_style")
            /\ UNCHANGED uncaught
    /\ UNCHANGED <<doc, inputs, container, roots, renderRequests, pending,
                   commits>>

ImportReact == Import("import_react")
ImportReactDOM == Import("import_reactdom")
ImportApp == Import("import_app")
ImportStyle == Import("import_style")

\* document.getElementById('root')
Lookup ==
    /\ pc = "lookup"
    /\ log' = Append(log, "lookup")
    /\ container' = getElementById(doc, MountId)
    /\ pc' = Succ("lookup")
    /\ UNCHANGED <<doc, inputs, styleLoaded, roots, renderRequests, pending,
                   commits, uncaught>>

\* ReactDOM.createRoot(container)
CreateRoot ==
    /\ pc = "createRoot"
    /\ log' = Append(log, "createRoot")
    /\ IF createRootThrows(container)
       THEN /\ pc' = Catch("createRoot")
            /\ uncaught' = Append(uncaught, "createRoot")
            /\ UNCHANGED roots
       ELSE /\ pc' = Succ("createRoot")
            /\ roots' = Append(roots, container)
            /\ UNCHANGED uncaught
    /\ UNCHANGED <<doc, inputs, styleLoaded, container, renderRequests,
                   pending, commits>>

Render_twice ==
    /\ pc = "render"
    /\ log' = Append(log, "render")
    /\ LET req == [root |-> Len(roots), tree |-> ComponentTree]
       IN /\ renderRequests' = renderRequests \o <<req, req>>
          /\ pending' = pending \o <<req, req>>
    /\ pc' = Succ("render")
    /\ UNCHANGED <<doc, inputs, styleLoaded, container, roots, commits,
                   uncaught>>

\* .render(<React.StrictMode><App /></React.StrictMode>) on the root that
\* createRoot returned (the newest root; 0 when there is none).
Render ==
    /\ pc = "render"
    /\ log' = Append(log, "render")
    /\ LET req == [root |-> Len(roots), tree |-> ComponentTree]
       IN /\ renderRequests' = Append(renderRequests, req)
          /\ pending' = Append(pending, req)
    /\ pc' = Succ("render")
    /\ UNCHANGED <<doc, inputs, styleLoaded, container, roots, commits,
                   uncaught>>

\* The framework works off one scheduled render in a task of its own: it
\* renders the tree and commits the output under the root's container.  An
\* error thrown by a component with no error boundary leaves the container
\* empty and is reported to the host.
FrameworkCommit ==
    /\ StackEmpty
    /\ pending # <<>>
    /\ LET req == Head(pending)
           c == IF req.root \in 1..Len(roots) THEN roots[req.root] ELSE Null
           out == IF appThrows THEN 0 ELSE RenderOutput(req.tree, appText)
       IN doc' = [x \in DOMAIN doc |-> IF x = c THEN out ELSE doc[x]]
    /\ uncaught' = IF appThrows THEN Append(uncaught, "App") ELSE uncaught
    /\ pending' = Tail(pending)
    /\ commits' = commits + 1
    /\ UNCHANGED <<pc, inputs, log, styleLoaded, container, roots,
                   renderRequests>>

\* The steps of the module itself.
Bootstrap ==
    \/ Link
    \/ ImportReact
    \/ ImportReactDOM
    \/ ImportApp
    \/ ImportStyle
    \/ Lookup
    \/ CreateRoot
    \/ Render

Next ==
    \/ Bootstrap
    \/ FrameworkCommit

Spec == Init /\ [][Next]_vars


(***************************************************************************)
(* Vocabulary of the properties.                                           *)
(***************************************************************************)

\* The host document carries an element with id "root".
RootPresent == "root" \in DOMAIN doc0

\* The module body (line 6 onwards) has started.
BodyRan == "lookup" \in Range(log)

\* x was evaluated, and before y if y was evaluated at all.
Before(x, y) ==
    \/ y \notin Range(log)
    \/ /\ x \in Range(log)
       /\ \A i, j \in 1..Len(log) : (log[i] = x /\ log[j] = y) => i < j

NoRepeat(s) == \A i, j \in 1..Len(s) : s[i] = s[j] => i = j

\* Every element other than "root" is as the module found it.
OutsideUntouched == \A x \in DOMAIN doc \ {"root"} : doc[x] = doc0[x]

\* C1: when the body has run to its end on a document with a "root"
\* element, exactly one root exists, bound to that element, and exactly one
\* render request was made, for App wrapped in StrictMode; at no time are
\* there more.
C1_OneRootOneRender ==
    /\ Len(roots) <= 1
    /\ Len(renderRequests) <= 1
    /\ (pc \in Terminal /\ BodyRan /\ RootPresent) =>
            /\ pc = "done"
            /\ roots = <<"root">>
            /\ renderRequests =
                 <<[root |-> 1,
                    tree |-> [wrapper |-> "StrictMode", child |-> "App"]]>>

C1_Witness ==
    /\ pc = "done"
    /\ RootPresent
    /\ "app" \in DOMAIN doc0
    /\ Len(roots) = 1
    /\ Len(renderRequests) = 1

\* C2: on a document with no "root" element the module never reaches
\* "done"; once its steps are over it is in the error state with an error
\* on the host's uncaught-error path, and until then a step remains to run.
C2_MissingMountFails ==
    ~RootPresent =>
        /\ pc # "done"
        /\ pc = "error" => uncaught # <<>>
        /\ pc # "error" => ENABLED Bootstrap

C2_Witness ==
    /\ ~RootPresent
    /\ failing = "none"
    /\ pc = "error"
    /\ log[Len(log)] = "createRoot"
    /\ uncaught = <<"createRoot">>

\* C3: the lookup is evaluated before the root is created and the root is
\* created before render is called; every render request names a root that
\* exists, and every root's container is the value the lookup returned.
C3_StrictOrder ==
    /\ Before("lookup", "createRoot")
    /\ Before("createRoot", "render")
    /\ \A i \in 1..Len(renderRequests) :
            /\ renderRequests[i].root \in 1..Len(roots)
            /\ "createRoot" \in Range(log)
    /\ \A i \in 1..Len(roots) :
            /\ "lookup" \in Range(log)
            /\ roots[i] = container

C3_Witness ==
    /\ log = Program
    /\ Len(roots) = 1
    /\ Len(renderRequests) = 1

\* C4: at most one root is ever bound to "root"; once created, the roots
\* never change again (none added, removed or rebound), whatever step or
\* framework task runs.
C4_SingleRootForever ==
    /\ [](Cardinality({i \in 1..Len(roots) : roots[i] = "root"}) <= 1)
    /\ [][roots # <<>> => roots' = roots]_vars

C4_Witness ==
    /\ roots = <<"root">>
    /\ commits = 1
    /\ pending = <<>>

\* C5 as stated: once the module has run to its end (App rendering a
\* literal text), "root" holds App's text and no other element has changed.
C5_RenderedOnReturn ==
    (pc = "done" /\ RootPresent /\ ~appThrows) =>
        /\ doc["root"] = appText
        /\ OutsideUntouched

\* C5 amended: the module itself leaves the whole document as it found it;
\* the framework's commit, which runs after the module has returned, puts
\* App's text under "root"; no other element is changed at any time.
C5_RenderedOnCommit ==
    /\ OutsideUntouched
    /\ commits = 0 => doc = doc0
    /\ (RootPresent /\ ~appThrows /\ commits >= 1) =>
            /\ pc = "done"
            /\ doc["root"] = appText

C5_Witness ==
    /\ commits = 1
    /\ ~appThrows
    /\ "app" \in DOMAIN doc0
    /\ RootPresent
    /\ doc0["root"] # appText
    /\ doc0["app"] # appText
    /\ doc["root"] = appText

\* The step that failed, if one has: the import that cannot be evaluated,
\* or createRoot on a missing mount point.
Failed(step) ==
    \/ step \in Range(log) /\ step = failing
    \/ step \in Range(log) /\ step = "createRoot" /\ container = Null

\* C7: no step is evaluated twice; a step that fails is the last one
\* evaluated, leaves the module in the error state and its error on the
\* uncaught-error path; a failed link evaluates nothing; with a missing
\* mount point no render request is made and the document is unchanged; the
\* framework renders at most once, also when App throws.
C7_NoHandlingNoRetry ==
    /\ NoRepeat(log)
    /\ \A step \in Range(Program) :
            Failed(step) =>
                /\ log[Len(log)] = step
                /\ pc = "error"
                /\ uncaught = <<step>>
    /\ (failing # "none" /\ failKind = "load" /\ pc # "link") =>
            /\ log = <<>>
            /\ pc = "error"
            /\ uncaught = <<failing>>
    /\ pc = "error" => (pending = <<>> /\ commits = 0 /\ doc = doc0)
    /\ ~RootPresent => (renderRequests = <<>> /\ doc = doc0)
    /\ commits <= 1
    /\ Len(uncaught) <= 1

C7_Witness ==
    /\ ~RootPresent
    /\ "app" \in DOMAIN doc0
    /\ pc = "error"
    /\ Failed("createRoot")
    /\ log = <<"import_react", "import_reactdom", "import_app",
               "import_style", "lookup", "createRoot">>

\* C8: the module takes at most one step per line of its program and then
\* stops: while it has not returned a step of its own is enabled and no
\* framework task has run or can run; with a mount point present the body
\* ends in "done" with its one render request handed to the framework,
\* which alone renders from then on.
C8_RunsToCompletion ==
    /\ Len(log) <= Len(ImportSteps) + Len(BodySteps)
    /\ pc \notin Terminal =>
            /\ ENABLED Bootstrap
            /\ ~ENABLED FrameworkCommit
            /\ commits = 0
    /\ pc \in Terminal => ~ENABLED Bootstrap
    /\ (pc \in Terminal /\ BodyRan /\ RootPresent) =>
            /\ pc = "done"
            /\ Len(pending) + commits = 1

C8_Witness ==
    /\ pc = "done"
    /\ RootPresent
    /\ Len(log) = Len(ImportSteps) + Len(BodySteps)
    /\ pending # <<>>
    /\ commits = 0

\* C9: when render is called all four imports have been evaluated, the
\* stylesheet among them; when an import fails, to load or to evaluate, no
\* step of the body runs: no lookup, no root, no render request, no change
\* to the document.
C9_ImportsFirst ==
    /\ \A i \in 1..Len(ImportSteps) :
            \A b \in Range(BodySteps) : Before(ImportSteps[i], b)
    /\ renderRequests # <<>> => styleLoaded
    /\ (failing # "none" /\ pc \in Terminal) =>
            /\ pc = "error"
            /\ Range(log) \cap Range(BodySteps) = {}
            /\ container = Null
            /\ roots = <<>>
            /\ renderRequests = <<>>
            /\ doc = doc0

C9_Witness ==
    /\ failing = "import_style"
    /\ failKind = "eval"
    /\ RootPresent
    /\ pc = "error"
    /\ log = ImportSteps
====
